---- MODULE Spec2Model ----
(***************************************************************************)
(* Model of smooth/framework/functions/update_financials.py: the cost      *)
(* evaluation of one component.  update_financials(component, financials)  *)
(* normalises the cost specification and runs update_cost for every step   *)
(* in index order; each step resolves its dependant value and writes       *)
(* financials['cost'].                                                     *)
(*                                                                         *)
(* Representation.  A Python value that is "either a bare value or a list" *)
(* is the record [list, items]; a fitting value is the record [kind, n, l] *)
(* (a number, the token "cost", or a list of numbers); a dict is the       *)
(* record [kind, has, ...] whose field has is the set of keys present.     *)
(* The financials argument is an alias of one attribute of the component   *)
(* (component.capex or component.opex), named by the variable which.       *)
(* Numbers are integers; math.exp is taken at integer arguments and        *)
(* rounded to the nearest integer.                                         *)
(***************************************************************************)
EXTENDS Integers, Sequences, FiniteSets, TLC

VARIABLES component, which, pc, index, err, calls, log, pre, outcomes

vars == <<component, which, pc, index, err, calls, log, pre, outcomes>>

(***************************************************************************)
(* Bounds of the model.                                                    *)
(***************************************************************************)
MaxSteps == 2
MaxFv == 3
MaxCalls == 2
MaxDep == 100
MaxExpArg == 6

(***************************************************************************)
(* Python values.                                                          *)
(***************************************************************************)
Bare(v) == [list |-> FALSE, items |-> <<v>>]
List(s) == [list |-> TRUE, items |-> s]

NumFv(n) == [kind |-> "num", n |-> n, l |-> <<>>]
CostFv == [kind |-> "cost", n |-> 0, l |-> <<>>]
ListFv(l) == [kind |-> "list", n |-> 0, l |-> l]

NoErr == [type |-> "none", what |-> "", key |-> "", name |-> "", count |-> 0]
Raise(t, w) == [type |-> t, what |-> w, key |-> "", name |-> "", count |-> 0]

EmptyDict ==
    [kind |-> "dict", has |-> {}, key |-> List(<<>>), fitting_value |-> List(<<>>),
     dependant_value |-> List(<<>>), cost |-> 0]
NoneValue == [EmptyDict EXCEPT !.kind = "none"]
Dict(k, f, d) ==
    [kind |-> "dict", has |-> {"key", "fitting_value", "dependant_value"},
     key |-> k, fitting_value |-> f, dependant_value |-> d, cost |-> 0]
WithCost(fin, c) == [fin EXCEPT !.cost = c, !.has = @ \cup {"cost"}]

\* financials is the object component.<which>
Fin(c, w) == c.attrs[w]
SetCost(c, w, v) == [c EXCEPT !.attrs[w] = WithCost(@, v)]

\* dict['cost'] of a record that may lack the key
HasCost(fin) == "cost" \in fin.has

\* Python's int ** int for a non-negative exponent (0 ** 0 = 1)
RECURSIVE Pow(_, _)
Pow(x, e) == IF e <= 0 THEN 1 ELSE x * Pow(x, e - 1)

\* math.exp at an integer argument, rounded to the nearest integer
ExpTable == <<1, 3, 7, 20, 55, 148, 403, 1097, 2981, 8103, 22026>>
Exp(n) ==
    IF n < 0 THEN 0
    ELSE IF n < Len(ExpTable) THEN ExpTable[n + 1] ELSE ExpTable[Len(ExpTable)]

Abs(n) == IF n < 0 THEN 0 - n ELSE n

(***************************************************************************)
(* update_financials, lines 21-29: the empty check and the normalisation.  *)
(***************************************************************************)
\* variant: only None counts as empty
FalsyNoneOnly(fin) == fin.kind = "none"

Falsy(fin) == fin.kind = "none" \/ fin.has = {}

Wrap(v) == List(<<v.items[1]>>)

\* variant: every field is wrapped on its own type, so a bare list of
\* coefficients is taken for the list of the steps' fitting values
NormalizePerField(fin) ==
    IF ~fin.key.list
    THEN [fin EXCEPT !.key = Wrap(fin.key),
                     !.fitting_value =
                         IF fin.fitting_value.items[1].kind = "list"
                         THEN List([j \in 1..Len(fin.fitting_value.items[1].l) |->
                                       NumFv(fin.fitting_value.items[1].l[j])])
                         ELSE Wrap(fin.fitting_value),
                     !.dependant_value = Wrap(fin.dependant_value)]
    ELSE fin

Normalize(fin) ==
    IF ~fin.key.list
    THEN [fin EXCEPT !.key = Wrap(fin.key),
                     !.fitting_value = Wrap(fin.fitting_value),
                     !.dependant_value = Wrap(fin.dependant_value)]
    ELSE fin

NSteps(fin) == Len(fin.key.items)

(***************************************************************************)
(* get_dependant_value.  The result says whether a value was resolved, the *)
(* value, and the error raised otherwise.                                  *)
(***************************************************************************)
HasAttr(c, name) == name \in DOMAIN c.attrs

\* financials['dependant_value'][index] and financials['fitting_value'][index]
\* raise IndexError past the end of the list
DepMissing(c, w, i) == i + 1 > Len(Fin(c, w).dependant_value.items)
FvMissing(c, w, i) == i + 1 > Len(Fin(c, w).fitting_value.items)
IndexError(field) == [type |-> "IndexError", what |-> field, key |-> "", name |-> "", count |-> 0]

Resolved(v) == [err |-> NoErr, v |-> v]
Unresolved(e) == [err |-> e, v |-> 0]

\* variant: "capex" is answered with the cost of the specification being updated
GetDependantValueOwnCost(c, w, i) ==
    LET name == Fin(c, w).dependant_value.items[i + 1] IN
    IF DepMissing(c, w, i) THEN Unresolved(IndexError("dependant_value"))
    ELSE IF ~HasAttr(c, name)
    THEN Unresolved([Raise("AttributeError", "attribute") EXCEPT !.name = name])
    ELSE IF name = "capex"
         THEN IF ~HasCost(Fin(c, w))
              THEN Unresolved([Raise("KeyError", "cost") EXCEPT !.key = "cost"])
              ELSE Resolved(Fin(c, w).cost)
         ELSE Resolved(c.attrs[name])

GetDependantValue(c, w, i) ==
    LET name == Fin(c, w).dependant_value.items[i + 1] IN
    IF DepMissing(c, w, i) THEN Unresolved(IndexError("dependant_value"))
    ELSE IF ~HasAttr(c, name)
    THEN Unresolved([Raise("AttributeError", "attribute") EXCEPT !.name = name])
    ELSE IF name = "capex"
         THEN IF c.attrs.capex.kind = "none"
              THEN Unresolved(Raise("TypeError", "subscript"))
              ELSE IF ~HasCost(c.attrs.capex)
                   THEN Unresolved([Raise("KeyError", "cost") EXCEPT !.key = "cost"])
                   ELSE Resolved(c.attrs.capex.cost)
         ELSE Resolved(c.attrs[name])

(***************************************************************************)
(* The result of one step: the component afterwards, the error raised (or  *)
(* NoErr), and what the step did: whether it looked an attribute up,       *)
(* whether it read fitting_value[index], whether it wrote the cost, and    *)
(* the dependant value it resolved.                                        *)
(***************************************************************************)
Pass(c) ==
    [component |-> c, err |-> NoErr, looked |-> FALSE, readFv |-> FALSE,
     wrote |-> FALSE, hasX |-> FALSE, x |-> 0]
Fail(c, e, looked, readFv, hasX, x) ==
    [component |-> c, err |-> e, looked |-> looked, readFv |-> readFv,
     wrote |-> FALSE, hasX |-> hasX, x |-> x]
Write(c, w, v, x) ==
    [component |-> SetCost(c, w, v), err |-> NoErr, looked |-> TRUE, readFv |-> TRUE,
     wrote |-> TRUE, hasX |-> TRUE, x |-> x]

(***************************************************************************)
(* update_spec: cost = dependant value * fitting value, where the fitting  *)
(* value "cost" stands for the current financials['cost'].                 *)
(***************************************************************************)
\* variant: the token "cost" is not recognised
UpdateSpecIgnoresToken(c, w, i) ==
    LET d == GetDependantValue(c, w, i)
        fv == Fin(c, w).fitting_value.items[i + 1]
    IN  IF d.err # NoErr THEN Fail(c, d.err, TRUE, FALSE, FALSE, 0)
        ELSE IF FvMissing(c, w, i)
        THEN Fail(c, IndexError("fitting_value"), TRUE, TRUE, TRUE, d.v)
        ELSE Write(c, w, d.v * fv.n, d.v)

UpdateSpec(c, w, i) ==
    LET d == GetDependantValue(c, w, i)
        fv == Fin(c, w).fitting_value.items[i + 1]
    IN  IF d.err # NoErr THEN Fail(c, d.err, TRUE, FALSE, FALSE, 0)
        ELSE IF FvMissing(c, w, i)
        THEN Fail(c, IndexError("fitting_value"), TRUE, TRUE, TRUE, d.v)
        ELSE IF fv.kind = "cost"
             THEN IF ~HasCost(Fin(c, w))
                  THEN Fail(c, [Raise("KeyError", "cost") EXCEPT !.key = "cost"],
                            TRUE, TRUE, TRUE, d.v)
                  ELSE Write(c, w, d.v * Fin(c, w).cost, d.v)
             ELSE Write(c, w, d.v * fv.n, d.v)

(***************************************************************************)
(* update_exp: fv[0] + fv[1] * exp(fv[2] * dependant value); two fitting   *)
(* values stand for <<0, fv[0], fv[1]>>.                                   *)
(***************************************************************************)
ExpFv(l) == IF Len(l) = 2 THEN <<0>> \o l ELSE l

UpdateExp(c, w, i) ==
    LET d == GetDependantValue(c, w, i)
        fv == Fin(c, w).fitting_value.items[i + 1]
        l == ExpFv(fv.l)
    IN  IF d.err # NoErr THEN Fail(c, d.err, TRUE, FALSE, FALSE, 0)
        ELSE IF FvMissing(c, w, i)
        THEN Fail(c, IndexError("fitting_value"), TRUE, TRUE, TRUE, d.v)
        ELSE IF fv.kind = "num"
             THEN Fail(c, Raise("TypeError", "len"), TRUE, TRUE, TRUE, d.v)
             ELSE IF Len(l) < 3
                  THEN Fail(c, IndexError("fv"), TRUE, TRUE, TRUE, d.v)
                  ELSE Write(c, w, l[1] + l[2] * Exp(l[3] * d.v), d.v)

(***************************************************************************)
(* update_poly: the loop of lines 103-105, then the write of line 107.     *)
(***************************************************************************)
RECURSIVE PolyLoop(_, _, _, _)
PolyLoop(fv, x, i_fv, cost) ==
    IF i_fv >= Len(fv) THEN cost
    ELSE PolyLoop(fv, x, i_fv + 1, cost + fv[i_fv + 1] * Pow(x, i_fv))

\* variant: the sum starts from the running cost instead of 0
UpdatePolyFromRunningCost(c, w, i) ==
    LET d == GetDependantValue(c, w, i)
        fv == Fin(c, w).fitting_value.items[i + 1]
    IN  IF d.err # NoErr THEN Fail(c, d.err, TRUE, FALSE, FALSE, 0)
        ELSE IF FvMissing(c, w, i)
        THEN Fail(c, IndexError("fitting_value"), TRUE, TRUE, TRUE, d.v)
        ELSE IF fv.kind = "num"
             THEN Fail(c, Raise("TypeError", "len"), TRUE, TRUE, TRUE, d.v)
             ELSE Write(c, w, PolyLoop(fv.l, d.v, 0, Fin(c, w).cost), d.v)

\* variant: the powers start at 1
UpdatePolyPowerOffByOne(c, w, i) ==
    LET d == GetDependantValue(c, w, i)
        fv == Fin(c, w).fitting_value.items[i + 1]
    IN  IF d.err # NoErr THEN Fail(c, d.err, TRUE, FALSE, FALSE, 0)
        ELSE IF FvMissing(c, w, i)
        THEN Fail(c, IndexError("fitting_value"), TRUE, TRUE, TRUE, d.v)
        ELSE IF fv.kind = "num"
             THEN Fail(c, Raise("TypeError", "len"), TRUE, TRUE, TRUE, d.v)
             ELSE Write(c, w, d.v * PolyLoop(fv.l, d.v, 0, 0), d.v)

UpdatePoly(c, w, i) ==
    LET d == GetDependantValue(c, w, i)
        fv == Fin(c, w).fitting_value.items[i + 1]
    IN  IF d.err # NoErr THEN Fail(c, d.err, TRUE, FALSE, FALSE, 0)
        ELSE IF FvMissing(c, w, i)
        THEN Fail(c, IndexError("fitting_value"), TRUE, TRUE, TRUE, d.v)
        ELSE IF fv.kind = "num"
             THEN Fail(c, Raise("TypeError", "len"), TRUE, TRUE, TRUE, d.v)
             ELSE Write(c, w, PolyLoop(fv.l, d.v, 0, 0), d.v)

(***************************************************************************)
(* update_free: pairs (coefficient, exponent); an odd number of fitting    *)
(* values raises.  The message is built from component['name'], an item    *)
(* access, which a component without item access answers with a TypeError. *)
(***************************************************************************)
RECURSIVE FreeLoop(_, _, _, _)
FreeLoop(fv, x, i, cost) ==
    IF i >= Len(fv) \div 2 THEN cost
    ELSE FreeLoop(fv, x, i + 1, cost + fv[i * 2 + 1] * Pow(x, fv[i * 2 + 2]))

OddCountError(c, n_fv) ==
    IF c.subscriptable
    THEN [Raise("ValueError", "even") EXCEPT !.name = c.attrs.name, !.count = n_fv]
    ELSE Raise("TypeError", "subscript")

\* variant: the cost is written before the count is checked
UpdateFreeWritesBeforeCheck(c, w, i) ==
    LET d == GetDependantValue(c, w, i)
        fv == Fin(c, w).fitting_value.items[i + 1]
    IN  IF d.err # NoErr THEN Fail(c, d.err, TRUE, FALSE, FALSE, 0)
        ELSE IF FvMissing(c, w, i)
        THEN Fail(c, IndexError("fitting_value"), TRUE, TRUE, TRUE, d.v)
        ELSE IF fv.kind = "num"
             THEN Fail(c, Raise("TypeError", "len"), TRUE, TRUE, TRUE, d.v)
             ELSE IF Len(fv.l) % 2 # 0
                  THEN [Fail(c, OddCountError(c, Len(fv.l)), TRUE, TRUE, TRUE, d.v)
                            EXCEPT !.component = SetCost(c, w, FreeLoop(fv.l, d.v, 0, 0)),
                                   !.wrote = TRUE]
                  ELSE Write(c, w, FreeLoop(fv.l, d.v, 0, 0), d.v)

UpdateFree(c, w, i) ==
    LET d == GetDependantValue(c, w, i)
        fv == Fin(c, w).fitting_value.items[i + 1]
    IN  IF d.err # NoErr THEN Fail(c, d.err, TRUE, FALSE, FALSE, 0)
        ELSE IF FvMissing(c, w, i)
        THEN Fail(c, IndexError("fitting_value"), TRUE, TRUE, TRUE, d.v)
        ELSE IF fv.kind = "num"
             THEN Fail(c, Raise("TypeError", "len"), TRUE, TRUE, TRUE, d.v)
             ELSE IF Len(fv.l) % 2 # 0
                  THEN Fail(c, OddCountError(c, Len(fv.l)), TRUE, TRUE, TRUE, d.v)
                  ELSE Write(c, w, FreeLoop(fv.l, d.v, 0, 0), d.v)

(***************************************************************************)
(* update_cost: the dispatch on financials['key'][index].                  *)
(***************************************************************************)
KnownKeys == {"fix", "spec", "exp", "poly", "free"}

KeyAt(c, w, i) == Fin(c, w).key.items[i + 1]

UnknownKeyError(k) == [Raise("ValueError", "key") EXCEPT !.key = k]

\* variant: an unknown key is passed over like "fix"
UpdateCostIgnoresUnknown(c, w, i) ==
    LET this_key == KeyAt(c, w, i) IN
    CASE this_key = "spec" -> UpdateSpec(c, w, i)
      [] this_key = "exp" -> UpdateExp(c, w, i)
      [] this_key = "poly" -> UpdatePoly(c, w, i)
      [] this_key = "free" -> UpdateFree(c, w, i)
      [] OTHER -> Pass(c)

\* variant: "fix" resolves its dependant value like every other key
UpdateCostFixResolves(c, w, i) ==
    LET this_key == KeyAt(c, w, i)
        d == GetDependantValue(c, w, i)
    IN
    CASE this_key = "fix" ->
            IF d.err # NoErr THEN Fail(c, d.err, TRUE, FALSE, FALSE, 0)
            ELSE [Pass(c) EXCEPT !.looked = TRUE, !.hasX = TRUE, !.x = d.v]
      [] this_key = "spec" -> UpdateSpec(c, w, i)
      [] this_key = "exp" -> UpdateExp(c, w, i)
      [] this_key = "poly" -> UpdatePoly(c, w, i)
      [] this_key = "free" -> UpdateFree(c, w, i)
      [] OTHER -> Fail(c, UnknownKeyError(this_key), FALSE, FALSE, FALSE, 0)

UpdateCost(c, w, i) ==
    LET this_key == KeyAt(c, w, i) IN
    CASE this_key = "fix" -> Pass(c)
      [] this_key = "spec" -> UpdateSpec(c, w, i)
      [] this_key = "exp" -> UpdateExp(c, w, i)
      [] this_key = "poly" -> UpdatePoly(c, w, i)
      [] this_key = "free" -> UpdateFree(c, w, i)
      [] OTHER -> Fail(c, UnknownKeyError(this_key), FALSE, FALSE, FALSE, 0)

(***************************************************************************)
(* update_financials as a function: the loop of lines 32-33 from step i,   *)
(* and the whole call.  The result is the component afterwards and the     *)
(* error raised (or NoErr).                                                *)
(***************************************************************************)
RECURSIVE RunFrom(_, _, _)
RunFrom(c, w, i) ==
    IF i >= NSteps(Fin(c, w)) THEN [component |-> c, err |-> NoErr]
    ELSE LET r == UpdateCost(c, w, i) IN
         IF r.err # NoErr THEN [component |-> r.component, err |-> r.err]
         ELSE RunFrom(r.component, w, i + 1)

UpdateFinancials(c, w) ==
    IF Falsy(Fin(c, w)) THEN [component |-> c, err |-> NoErr]
    ELSE IF "key" \notin Fin(c, w).has
    THEN [component |-> c, err |-> [Raise("KeyError", "key") EXCEPT !.key = "key"]]
    ELSE RunFrom([c EXCEPT !.attrs[w] = Normalize(Fin(c, w))], w, 0)

(***************************************************************************)
(* The inputs: the steps a cost specification is made of, the              *)
(* specifications, and the components.                                     *)
(***************************************************************************)
Step(k, f, d) == [key |-> k, fv |-> f, dep |-> d]

Deps == {"power", "capex", "missing"}

RECURSIVE SeqsUpTo(_, _)
SeqsUpTo(S, n) ==
    IF n = 0 THEN {<<>>}
    ELSE LET shorter == SeqsUpTo(S, n - 1) IN
         shorter \cup {Append(l, v) : l \in {t \in shorter : Len(t) = n - 1}, v \in S}

StepsOver(nums, lists, deps) ==
    {Step("fix", NumFv(2), d) : d \in deps \cap {"power", "missing"}}
    \cup {Step("bogus", NumFv(2), "power")}
    \cup {Step("spec", f, d) : f \in {NumFv(n) : n \in nums} \cup {CostFv}, d \in deps}
    \cup {Step(k, ListFv(l), d) : k \in {"exp", "poly", "free"}, l \in lists, d \in deps}

\* the steps of the one-step specifications
Coefs == {1, 2}
Nums == {-1, 0, 2, 3}
SingleSteps == StepsOver(Nums, SeqsUpTo(Coefs, MaxFv), Deps)

\* the steps of the specifications of up to MaxSteps steps
ChainLists == {<<2, 1>>, <<1, 2, 1>>}
ChainSteps ==
    {s \in StepsOver({2}, ChainLists, Deps) :
        s.dep = "missing" => s.key \in {"fix", "spec"}}

BareSpec(s) == Dict(Bare(s.key), Bare(s.fv), Bare(s.dep))
ListSpec(ss) ==
    Dict(List([i \in 1..Len(ss) |-> ss[i].key]),
         List([i \in 1..Len(ss) |-> ss[i].fv]),
         List([i \in 1..Len(ss) |-> ss[i].dep]))

CapexOfOther == WithCost(EmptyDict, 5)

Component(power, subscriptable, w, fin) ==
    [subscriptable |-> subscriptable,
     attrs |-> [name |-> "comp", power |-> power,
                capex |-> IF w = "capex" THEN fin ELSE CapexOfOther,
                opex |-> IF w = "opex" THEN fin ELSE EmptyDict]]

SingleSpecs ==
    LET raw == {BareSpec(s) : s \in SingleSteps} \cup {ListSpec(<<s>>) : s \in SingleSteps}
    IN  raw \cup {WithCost(f, c) : f \in raw, c \in {0, 2}}

ChainSpecs == {WithCost(ListSpec(ss), 3) : ss \in SeqsUpTo(ChainSteps, MaxSteps)}

\* specifications whose lists are shorter than the list of keys
ShortSpecs ==
    LET two == ListSpec(<<Step("fix", NumFv(2), "power"), Step("spec", NumFv(2), "power")>>)
    IN  {WithCost([two EXCEPT !.fitting_value = List(<<>>)], 3),
         WithCost([two EXCEPT !.fitting_value = List(<<NumFv(2)>>)], 3),
         WithCost([two EXCEPT !.dependant_value = List(<<>>)], 3),
         WithCost([two EXCEPT !.fitting_value = List(<<>>),
                              !.dependant_value = List(<<>>)], 3)}

OddSpecs == {EmptyDict, NoneValue, WithCost(EmptyDict, 3)} \cup ShortSpecs

InitWith(specs, powers) ==
    /\ which \in {"capex", "opex"}
    /\ \E fin \in specs, power \in powers, s \in BOOLEAN :
          component = Component(power, s, which, fin)
    /\ pc = "idle"
    /\ index = 0
    /\ err = NoErr
    /\ calls = 0
    /\ log = <<>>
    /\ pre = component
    /\ outcomes = <<>>

Init ==
    \/ InitWith(SingleSpecs, {-2, 0, 3})
    \/ InitWith(ChainSpecs \cup OddSpecs, {2})

(***************************************************************************)
(* update_financials as a process: Call is the entry up to the loop, and   *)
(* each step of the loop is one update_cost.  The loop ends after the last *)
(* step; an exception ends the call.                                       *)
(***************************************************************************)
Outcome(status, c) ==
    [status |-> status, hasCost |-> HasCost(Fin(c, which)), cost |-> Fin(c, which).cost]

Call ==
    /\ pc \in {"idle", "done", "raised"}
    /\ calls < MaxCalls
    /\ calls' = calls + 1
    /\ pre' = component
    /\ log' = <<>>
    /\ index' = 0
    /\ LET fin == Fin(component, which) IN
       IF Falsy(fin)
       THEN /\ pc' = "done"
            /\ err' = NoErr
            /\ component' = component
            /\ outcomes' = Append(outcomes, Outcome("returned", component))
       ELSE IF "key" \notin fin.has
       THEN /\ pc' = "raised"
            /\ err' = [Raise("KeyError", "key") EXCEPT !.key = "key"]
            /\ component' = component
            /\ outcomes' = Append(outcomes, Outcome("raised", component))
       ELSE /\ component' = [component EXCEPT !.attrs[which] = Normalize(fin)]
            /\ err' = NoErr
            /\ IF NSteps(Normalize(fin)) = 0
               THEN /\ pc' = "done"
                    /\ outcomes' = Append(outcomes, Outcome("returned", component'))
               ELSE /\ pc' = "loop"
                    /\ outcomes' = outcomes
    /\ UNCHANGED which

\* the bounds on the numbers: the resolved dependant value and exp's argument
InBounds(c, w, i) ==
    LET d == GetDependantValue(c, w, i)
        fv == Fin(c, w).fitting_value.items[i + 1]
    IN  (KeyAt(c, w, i) \in KnownKeys \ {"fix"} /\ d.err = NoErr /\ ~FvMissing(c, w, i)) =>
           /\ Abs(d.v) <= MaxDep
           /\ (KeyAt(c, w, i) = "exp" /\ Len(ExpFv(fv.l)) >= 3) =>
                 ExpFv(fv.l)[3] * d.v <= MaxExpArg

LogEntry(r) ==
    [index |-> index, key |-> KeyAt(component, which, index),
     dep |-> IF DepMissing(component, which, index) THEN ""
             ELSE Fin(component, which).dependant_value.items[index + 1],
     fv |-> IF FvMissing(component, which, index) THEN NumFv(0)
            ELSE Fin(component, which).fitting_value.items[index + 1],
     looked |-> r.looked, readFv |-> r.readFv, wrote |-> r.wrote,
     hasX |-> r.hasX, x |-> r.x,
     hadCost |-> HasCost(Fin(component, which)), before |-> Fin(component, which).cost,
     hasCost |-> HasCost(Fin(r.component, which)), after |-> Fin(r.component, which).cost,
     err |-> r.err]

LoopStep ==
    /\ pc = "loop"
    /\ InBounds(component, which, index)
    /\ LET r == UpdateCost(component, which, index) IN
       /\ component' = r.component
       /\ log' = Append(log, LogEntry(r))
       /\ err' = r.err
       /\ IF r.err # NoErr
          THEN /\ pc' = "raised"
               /\ index' = index
               /\ outcomes' = Append(outcomes, Outcome("raised", r.component))
          ELSE IF index + 1 < NSteps(Fin(component, which))
          THEN /\ pc' = "loop"
               /\ index' = index + 1
               /\ outcomes' = outcomes
          ELSE /\ pc' = "done"
               /\ index' = index
               /\ outcomes' = Append(outcomes, Outcome("returned", r.component))
    /\ UNCHANGED <<which, calls, pre>>

AtKey(k) == pc = "loop" /\ KeyAt(component, which, index) = k

StepFix ==
    /\ AtKey("fix")
    /\ LoopStep

StepSpec ==
    /\ AtKey("spec")
    /\ LoopStep

StepExp ==
    /\ AtKey("exp")
    /\ LoopStep

StepPoly ==
    /\ AtKey("poly")
    /\ LoopStep

StepFree ==
    /\ AtKey("free")
    /\ LoopStep

StepUnknown ==
    /\ pc = "loop"
    /\ KeyAt(component, which, index) \notin KnownKeys
    /\ LoopStep

Next ==
    \/ Call
    \/ StepFix
    \/ StepSpec
    \/ StepExp
    \/ StepPoly
    \/ StepFree
    \/ StepUnknown

Spec == Init /\ [][Next]_vars

(***************************************************************************)
(* Properties.                                                             *)
(***************************************************************************)
Target == Fin(component, which)
PreFin == Fin(pre, which)
Last(q) == q[Len(q)]

\* the running cost when step number i of the log started
CostBefore(i) == IF i = 1 THEN PreFin.cost ELSE log[i - 1].after
HadCostBefore(i) == IF i = 1 THEN HasCost(PreFin) ELSE log[i - 1].hasCost

\* the dependant value step number i of the log has to be evaluated against
ExpectedX(i) ==
    IF log[i].dep = "capex"
    THEN IF which = "capex" THEN CostBefore(i) ELSE pre.attrs.capex.cost
    ELSE pre.attrs[log[i].dep]

\* step j of a normalised specification reads the cost of that specification
ReadsOwnCost(fin, j) ==
    /\ fin.key.items[j] # "fix"
    /\ \/ fin.key.items[j] = "spec" /\ fin.fitting_value.items[j].kind = "cost"
       \/ fin.dependant_value.items[j] = "capex" /\ which = "capex"

\* the first step that is not "fix", if any, does not read the running cost
CostIndependent(fin) ==
    \A j \in 1..NSteps(fin) :
        (fin.key.items[j] # "fix" /\ \A k \in 1..(j - 1) : fin.key.items[k] = "fix")
            => ~ReadsOwnCost(fin, j)

BothReturned(n) ==
    /\ n + 1 <= Len(outcomes)
    /\ outcomes[n].status = "returned"
    /\ outcomes[n + 1].status = "returned"
    /\ ~Falsy(Target)

SameCost(n) ==
    /\ outcomes[n + 1].hasCost = outcomes[n].hasCost
    /\ outcomes[n + 1].cost = outcomes[n].cost

\* C1 as stated: whenever two calls in a row succeed on a non-empty
\* specification, the second leaves the cost the first one left.
C1_Idempotent ==
    \A n \in 1..Len(outcomes) : BothReturned(n) => SameCost(n)

\* C1 amended: two successful calls in a row leave the same cost when the
\* first step that is not "fix" (if there is one) neither takes the token
\* "cost" as its fitting value nor resolves "capex" on the capex record that
\* is being updated.
C1_IdempotentWhenCostIndependent ==
    \A n \in 1..Len(outcomes) :
        (BothReturned(n) /\ CostIndependent(Target)) => SameCost(n)

C1_Witness ==
    /\ BothReturned(1)
    /\ CostIndependent(Target)
    /\ NSteps(Target) = 2
    /\ Target.key.items[1] = "poly"
    /\ ReadsOwnCost(Target, 2)
    /\ outcomes[2].cost = outcomes[1].cost
    /\ outcomes[1].cost # 3

\* C2 as stated: a step with an unknown key ends the call with the
\* ValueError naming the key, and the cost is the one from before the call.
C2_UnknownKeyCostAsBeforeCall ==
    \A i \in 1..Len(log) :
        log[i].key \notin KnownKeys =>
            /\ pc = "raised"
            /\ err = UnknownKeyError(log[i].key)
            /\ Target.cost = PreFin.cost
            /\ HasCost(Target) = HasCost(PreFin)

\* C2 amended: a step with an unknown key ends the call with the ValueError
\* naming the key, it is the last step run, and the cost is the one the
\* steps before it left: the cost from before the call when all of them are
\* "fix" (or there is none).
C2_UnknownKeyKeepsRunningCost ==
    \A i \in 1..Len(log) :
        log[i].key \notin KnownKeys =>
            /\ i = Len(log)
            /\ pc = "raised"
            /\ err = UnknownKeyError(log[i].key)
            /\ err.type = "ValueError"
            /\ Target.cost = CostBefore(i)
            /\ HasCost(Target) = HadCostBefore(i)
            /\ (\A j \in 1..(i - 1) : log[j].key = "fix") =>
                   /\ Target.cost = PreFin.cost
                   /\ HasCost(Target) = HasCost(PreFin)

C2_Witness ==
    /\ pc = "raised"
    /\ Len(log) = 2
    /\ log[1].wrote
    /\ log[2].key = "bogus"
    /\ err = UnknownKeyError("bogus")
    /\ Target.cost = log[1].after
    /\ Target.cost # PreFin.cost

\* C3: a call on an empty specification (an empty dict or None) returns
\* without error, runs no step and so looks no attribute up, and leaves the
\* component and the specification as they were.
C3_EmptyIsNoOp ==
    (calls > 0 /\ PreFin \in {EmptyDict, NoneValue}) =>
        /\ pc = "done"
        /\ err = NoErr
        /\ log = <<>>
        /\ component = pre
        /\ ~HasCost(Target)

C3_Witness ==
    /\ calls = 2
    /\ PreFin = EmptyDict
    /\ pc = "done"

\* the list-of-one form of a single-form specification
AsListOfOne(fin) ==
    [fin EXCEPT !.key = List(<<fin.key.items[1]>>),
                !.fitting_value = List(<<fin.fitting_value.items[1]>>),
                !.dependant_value = List(<<fin.dependant_value.items[1]>>)]

SingleFormCallEnded ==
    /\ pc \in {"done", "raised"}
    /\ calls > 0
    /\ ~Falsy(PreFin)
    /\ "key" \in PreFin.has
    /\ ~PreFin.key.list

\* C4: a call on a single-form specification ends as the call on its
\* list-of-one form does (the same error, the same cost), and leaves key,
\* fitting_value and dependant_value as the one-element lists.
C4_NormalizationLossless ==
    SingleFormCallEnded =>
        LET r == UpdateFinancials([pre EXCEPT !.attrs[which] = AsListOfOne(PreFin)], which)
        IN  /\ r.err = err
            /\ Fin(r.component, which).cost = Target.cost
            /\ HasCost(Fin(r.component, which)) = HasCost(Target)
            /\ r.component = component
            /\ Target.key = List(<<PreFin.key.items[1]>>)
            /\ Target.fitting_value = List(<<PreFin.fitting_value.items[1]>>)
            /\ Target.dependant_value = List(<<PreFin.dependant_value.items[1]>>)

C4_Witness ==
    /\ SingleFormCallEnded
    /\ pc = "done"
    /\ Target.key = List(<<"poly">>)
    /\ Target.fitting_value = List(<<ListFv(<<1, 2>>)>>)
    /\ Target.cost = 7

\* C5 as stated: a "free" step over an odd number of coefficients raises the
\* ValueError naming the component and the count and writes no cost; over
\* an even number it does not raise that error.
C5_OddFreeRaisesValueError ==
    \A i \in 1..Len(log) :
        (log[i].key = "free" /\ log[i].hasX /\ log[i].fv.kind = "list") =>
            IF Len(log[i].fv.l) % 2 # 0
            THEN /\ log[i].err.type = "ValueError"
                 /\ log[i].err.name = pre.attrs.name
                 /\ log[i].err.count = Len(log[i].fv.l)
                 /\ ~log[i].wrote
                 /\ log[i].after = log[i].before
            ELSE log[i].err.what # "even"

\* C6: the steps run in index order, each once; a step resolving "capex"
\* gets the cost of the capex record as it is when the step runs (the cost
\* the step before left, when that record is the one being updated), and a
\* step resolving another name gets the component's attribute.
C6_CapexResolutionAndOrder ==
    /\ \A i \in 1..Len(log) :
          /\ log[i].index = i - 1
          /\ log[i].hasX => log[i].x = ExpectedX(i)
    /\ pc = "loop" => index = Len(log)
    /\ (pc = "done" /\ calls > 0 /\ ~Falsy(PreFin)) => Len(log) = NSteps(Target)

C6_Witness ==
    /\ which = "capex"
    /\ pc = "done"
    /\ Len(log) = 2
    /\ log[1].key = "spec"
    /\ log[1].wrote
    /\ log[2].key = "poly"
    /\ log[2].dep = "capex"
    /\ log[2].hasX
    /\ log[2].x = log[1].after
    /\ log[2].x # PreFin.cost

\* C7: a "spec" step that succeeds writes the dependant value times the
\* numeric fitting value, or, for the token "cost", times the running cost
\* from just before the step.
C7_SpecResult ==
    \A i \in 1..Len(log) :
        (log[i].key = "spec" /\ log[i].err = NoErr) =>
            /\ log[i].wrote
            /\ log[i].hasCost
            /\ log[i].after =
                  ExpectedX(i) * (IF log[i].fv.kind = "cost" THEN CostBefore(i)
                                  ELSE log[i].fv.n)
            /\ i = Len(log) => Target.cost = log[i].after

C7_Witness ==
    /\ Len(log) = 2
    /\ log[1].wrote
    /\ log[2].key = "spec"
    /\ log[2].fv.kind = "cost"
    /\ log[2].dep = "power"
    /\ log[2].err = NoErr
    /\ log[2].before # PreFin.cost
    /\ log[2].after = 2 * log[1].after

\* the power series by Horner's rule
RECURSIVE Horner(_, _)
Horner(l, x) == IF l = <<>> THEN 0 ELSE Head(l) + x * Horner(Tail(l), x)

\* C8: a "poly" step that succeeds writes the sum of fv[i] * x^i over the
\* coefficients in ascending powers, 0 for no coefficient, whatever the cost
\* was before.
C8_PolyResult ==
    \A i \in 1..Len(log) :
        (log[i].key = "poly" /\ log[i].err = NoErr) =>
            /\ log[i].wrote
            /\ log[i].hasCost
            /\ log[i].after = Horner(log[i].fv.l, ExpectedX(i))
            /\ i = Len(log) => Target.cost = log[i].after

C8_Witness ==
    /\ Len(log) = 1
    /\ log[1].key = "poly"
    /\ log[1].fv.l = <<1, 2, 1>>
    /\ log[1].x = 3
    /\ Target.cost = 16

AllFix(fin) == \A j \in 1..NSteps(fin) : fin.key.items[j] = "fix"

\* C9: a "fix" step changes nothing of the component or the specification,
\* looks no attribute up, does not read its fitting value and raises
\* nothing; a call on a specification of "fix" steps only ends with the cost
\* it started with.
C9_FixIsNoOp ==
    /\ [][AtKey("fix") =>
            /\ component' = component
            /\ err' = NoErr
            /\ pc' # "raised"
            /\ ~Last(log').looked
            /\ ~Last(log').readFv
            /\ ~Last(log').wrote]_vars
    /\ []((pc = "done" /\ calls > 0 /\ ~Falsy(PreFin) /\ AllFix(Target)) =>
            /\ Target.cost = PreFin.cost
            /\ HasCost(Target) = HasCost(PreFin))

C9_Witness ==
    /\ pc = "done"
    /\ Len(log) = 2
    /\ log[1].key = "fix"
    /\ log[2].key = "fix"
    /\ log[1].dep = "missing"
    /\ Target.cost = 3

\* the cost the last cost-writing step among the first k steps of the log
\* left, or the cost from before the call
RECURSIVE CostAfter(_)
CostAfter(k) ==
    IF k = 0 THEN [has |-> HasCost(PreFin), cost |-> PreFin.cost]
    ELSE IF log[k].wrote THEN [has |-> TRUE, cost |-> log[k].after]
    ELSE CostAfter(k - 1)

\* C10: when a call fails at a step, the steps before it ran once each in
\* index order without error, no later step runs, the failing step writes
\* no cost, and the cost is the one the last cost-writing step before it
\* left (the one from before the call if there is none).
C10_FailureKeepsLastCost ==
    (pc = "raised" /\ log # <<>>) =>
        LET n == Len(log) IN
        /\ \A i \in 1..n : log[i].index = i - 1
        /\ \A i \in 1..(n - 1) : log[i].err = NoErr
        /\ index = n - 1
        /\ log[n].err = err
        /\ err # NoErr
        /\ ~log[n].wrote
        /\ Target.cost = CostAfter(n - 1).cost
        /\ HasCost(Target) = CostAfter(n - 1).has
        /\ Last(outcomes).status = "raised"
        /\ Last(outcomes).cost = CostAfter(n - 1).cost

C10_Witness ==
    /\ pc = "raised"
    /\ Len(log) = 2
    /\ log[1].wrote
    /\ log[2].key = "free"
    /\ Len(log[2].fv.l) % 2 = 1
    /\ log[2].hasX
    /\ Target.cost = log[1].after
    /\ Target.cost # PreFin.cost
====
